---- MODULE Spec2Model ----
(***************************************************************************)
(* ChromaDBAnalyzer (chromadb_stats.py): the report pipeline               *)
(*   connect -> check_health -> get_collections_overview ->                *)
(*   list_collections -> {analyze_collection, test_search_functionality}   *)
(* against a vector-store service whose calls may raise.                   *)
(*                                                                         *)
(* Python values are modelled as follows.                                  *)
(*   dict            a function with a set of strings as domain; {} is <<>>*)
(*   str (document)  [none |-> FALSE, text |-> sequence of characters]     *)
(*   None document   [none |-> TRUE,  text |-> <<>>]                       *)
(*   metadata dict   [none |-> FALSE, items |-> sequence of [k, v]] in     *)
(*                   the dict's iteration order; None has none |-> TRUE    *)
(*   metadata value  [type |-> "int", int |-> n] or                        *)
(*                   [type |-> "str", str |-> s]                           *)
(*   float mean      the exact fraction [num |-> sum, den |-> n]           *)
(*   call result     [ok |-> TRUE, val |-> v] or [ok |-> FALSE, err |-> e] *)
(***************************************************************************)
EXTENDS Integers, Sequences, FiniteSets, TLC

\* ------------------------------------------------------------------ bounds
\* Calls that raise (or answer with an HTTP error) during one run.
MaxFaults == 2
\* Collections created or deleted on the service by other clients during a run.
MaxChurn == 1

\* ------------------------------------------------------- program constants
SampleLimit == 1000
SampleCount == 5
VectorSample == 10
SampleValues == 5
CommonKeys == 10
MetaSamples == 3
QueryChars == 100
QueryResults == 5
FilterLimit == 5
HttpOK == 200
HttpUnavailable == 503

Names == {"A", "B"}

\* ----------------------------------------------------------------- helpers
Min(a, b) == IF a < b THEN a ELSE b

EmptyDict == <<>>

Ok(v) == [ok |-> TRUE, val |-> v]

Raise(e) == [ok |-> FALSE, err |-> e]

Range(s) == {s[i] : i \in DOMAIN s}

\* s[:n]
Take(s, n) == SubSeq(s, 1, Min(n, Len(s)))

RECURSIVE SumRange(_, _, _)
SumRange(s, lo, hi) ==
  IF lo > hi THEN 0
  ELSE IF lo = hi THEN s[lo]
  ELSE LET mid == (lo + hi) \div 2
       IN SumRange(s, lo, mid) + SumRange(s, mid + 1, hi)

Sum(s) == SumRange(s, 1, Len(s))

\* The elements s[i] with keep[i], in order.
RECURSIVE SelectRange(_, _, _, _)
SelectRange(s, keep, lo, hi) ==
  IF lo > hi THEN <<>>
  ELSE IF lo = hi THEN (IF keep[lo] THEN <<s[lo]>> ELSE <<>>)
  ELSE LET mid == (lo + hi) \div 2
       IN SelectRange(s, keep, lo, mid) \o SelectRange(s, keep, mid + 1, hi)

Select(s, keep) == SelectRange(s, keep, 1, Len(s))

\* ------------------------------------------------------------ Python values
Str(t) == [none |-> FALSE, text |-> t]

NoneDoc == [none |-> TRUE, text |-> <<>>]

IntVal(n) == [type |-> "int", int |-> n]

StrVal(s) == [type |-> "str", str |-> s]

Dict(items) == [none |-> FALSE, items |-> items]

NoneMeta == [none |-> TRUE, items |-> <<>>]

\* bool(doc): None and "" are falsy
DocTruthy(doc) == ~doc.none /\ Len(doc.text) > 0

\* len(doc) if doc else 0
DocLen(doc) == IF DocTruthy(doc) THEN Len(doc.text) ELSE 0

\* bool(meta): None and {} are falsy
MetaTruthy(meta) == ~meta.none /\ Len(meta.items) > 0

MetaKeys(meta) == [i \in DOMAIN meta.items |-> meta.items[i].k]

HasKey(meta, key) == \E i \in DOMAIN meta.items : meta.items[i].k = key

\* meta[key]
Lookup(meta, key) ==
  meta.items[CHOOSE i \in DOMAIN meta.items : meta.items[i].k = key].v

Digits == <<"0", "1", "2", "3", "4", "5", "6", "7", "8", "9">>

\* str(v): an int renders as its decimal digits, a str as itself
StrOf(v) == IF v.type = "int" THEN Digits[v.int + 1] ELSE v.str

\* type(v).__name__
TypeName(v) == v.type

\* bool(list): None and [] are falsy
ListTruthy(l) == ~l.none /\ Len(l.list) > 0

List(s) == [none |-> FALSE, list |-> s]

NoneList == [none |-> TRUE, list |-> <<>>]

\* ------------------------------------------------------ the service's data
Rec(id, doc, meta, emb) == [id |-> id, doc |-> doc, meta |-> meta, emb |-> emb]

LongText == [i \in 1..(QueryChars + 1) |-> "x"]

Profiles == {"empty", "three", "ragged", "big", "bare"}

RecordsTable ==
  [profile \in Profiles |->
     CASE profile = "empty" -> <<>>
       [] profile = "three" ->
            << Rec("r1", Str(<<"a", "b">>),
                   Dict(<<[k |-> "category", v |-> StrVal("a")],
                          [k |-> "n", v |-> IntVal(1)]>>), <<1, 2>>),
               Rec("r2", Str(<<>>),
                   Dict(<<[k |-> "n", v |-> StrVal("1")],
                          [k |-> "category", v |-> StrVal("a")]>>), <<3, 4>>),
               Rec("r3", NoneDoc, NoneMeta, <<5, 6>>) >>
       [] profile = "ragged" ->
            << Rec("r1", Str(LongText), Dict(<<[k |-> "k", v |-> StrVal("v")]>>),
                   <<1, 2>>),
               Rec("r2", Str(<<"b">>), Dict(<<>>), <<3>>) >>
       [] profile = "big" ->
            [i \in 1..(SampleLimit + 1) |->
               Rec("r", Str(<<"x">>), NoneMeta, <<1>>)]
       [] profile = "bare" ->
            << Rec("r1", Str(<<>>), NoneMeta, <<0>>) >>]

Records(profile) == RecordsTable[profile]

\* collection.metadata as the service stores it
ColMeta(profile) ==
  IF profile = "three" THEN Dict(<<[k |-> "owner", v |-> StrVal("a")]>>)
  ELSE NoneMeta

\* ------------------------------------------------------- the service's API
\* A collection on the service is [name, id, profile]; the client's handle to
\* it is [name, id, metadata] (what list_collections returns).
Handle(col) == [name |-> col.name, id |-> col.id, metadata |-> ColMeta(col.profile)]

Exists(svc, h) == \E i \in DOMAIN svc : svc[i].id = h.id

RecordsOf(svc, h) ==
  Records(svc[CHOOSE i \in DOMAIN svc : svc[i].id = h.id].profile)

\* One entry of the log of service calls: the operation that issued it, the
\* call, the collection, its limit (or n_results) and how it ended.
Call(by, op, col, arg, res) ==
  [by |-> by, op |-> op, col |-> col, arg |-> arg, res |-> res]

Res(r) == IF r.ok THEN "ok" ELSE "raise"

\* client.list_collections()
list_collections(svc, fail) ==
  IF fail THEN Raise("ConnectionError")
  ELSE Ok([i \in DOMAIN svc |-> Handle(svc[i])])

\* collection.count()
collection_count(svc, h, fail) ==
  IF fail THEN Raise("ConnectionError")
  ELSE IF ~Exists(svc, h) THEN Raise("NotFound")
  ELSE Ok(Len(RecordsOf(svc, h)))

\* One field of the first limit records, or None when it was not asked for.
Column(recs, limit, included, field) ==
  IF included THEN List([i \in 1..Min(limit, Len(recs)) |-> recs[i][field]])
  ELSE NoneList

GetResults(recs, limit, include) ==
  [ids |-> [i \in 1..Min(limit, Len(recs)) |-> recs[i].id],
   documents |-> Column(recs, limit, "documents" \in include, "doc"),
   metadatas |-> Column(recs, limit, "metadatas" \in include, "meta"),
   embeddings |-> Column(recs, limit, "embeddings" \in include, "emb")]

\* collection.get(limit=limit, include=include)
collection_get(svc, h, limit, include, fail) ==
  IF fail THEN Raise("ConnectionError")
  ELSE IF ~Exists(svc, h) THEN Raise("NotFound")
  ELSE Ok(GetResults(RecordsOf(svc, h), limit, include))

QueryResponse(recs, n) ==
  [ids |-> << [i \in 1..Min(n, Len(recs)) |-> recs[i].id] >>,
   distances |-> List(<< [i \in 1..Min(n, Len(recs)) |-> i - 1] >>)]

\* collection.query(query_texts=[text], n_results=n)
collection_query(svc, h, text, n, fail) ==
  IF fail THEN Raise("ConnectionError")
  ELSE IF ~Exists(svc, h) THEN Raise("NotFound")
  ELSE Ok(QueryResponse(RecordsOf(svc, h), n))

Matches(r, key, value) ==
  ~r.meta.none /\ HasKey(r.meta, key) /\ Lookup(r.meta, key) = value

IdsOf(recs) == [i \in DOMAIN recs |-> recs[i].id]

WhereResponse(recs, key, value, limit) ==
  [ids |-> IdsOf(Take(Select(recs, [i \in DOMAIN recs |-> Matches(recs[i], key, value)]),
                      limit))]

\* collection.get(where={key: value}, limit=limit)
collection_get_where(svc, h, key, value, limit, fail) ==
  IF fail THEN Raise("ConnectionError")
  ELSE IF ~Exists(svc, h) THEN Raise("NotFound")
  ELSE Ok(WhereResponse(RecordsOf(svc, h), key, value, limit))

\* ---------------------------------------- analyze_collection: sub-analyses
\* [len(doc) if doc else 0 for doc in documents]
Lengths(documents) == [i \in DOMAIN documents |-> DocLen(documents[i])]

\* lines 187-194
DocumentStats(documents) ==
  [total_analyzed |-> Len(documents),
   sample_count |-> Min(SampleCount, Len(documents)),
   samples |-> Take(documents, SampleCount),
   document_lengths |-> Lengths(documents),
   avg_document_length |-> [num |-> Sum(Lengths(documents)), den |-> Len(documents)],
   empty_documents |->
     Cardinality({i \in DOMAIN documents : ~DocTruthy(documents[i])})]

\* lines 185-194
DocumentsAnalysis(results) ==
  IF ListTruthy(results.documents) THEN DocumentStats(results.documents.list)
  ELSE EmptyDict

\* np.array(embeddings) is two-dimensional iff all rows have one width
Rectangular(embeddings) ==
  \A i \in DOMAIN embeddings : Len(embeddings[i]) = Len(embeddings[1])

SetMin(S) == CHOOSE x \in S : \A y \in S : x <= y

SetMax(S) == CHOOSE x \in S : \A y \in S : x >= y

RowSums(embeddings) == [i \in DOMAIN embeddings |-> Sum(embeddings[i])]

RowSquares(embeddings) ==
  [i \in DOMAIN embeddings |->
     Sum([j \in DOMAIN embeddings[i] |-> embeddings[i][j] * embeddings[i][j]])]

Components(embeddings) == UNION {Range(embeddings[i]) : i \in DOMAIN embeddings}

\* lines 206-211, over the size components pooled from all vectors: their sum
\* is total, the sum of their squares is squares. std is kept as the variance.
PooledStatistics(size, total, squares, all) ==
  IF size > 0
  THEN [mean |-> [num |-> total, den |-> size],
        variance |-> [num |-> size * squares - total * total, den |-> size * size],
        min |-> SetMin(all),
        max |-> SetMax(all)]
  ELSE [mean |-> [num |-> 0, den |-> 1], variance |-> [num |-> 0, den |-> 1],
        min |-> 0, max |-> 0]

\* lines 203-213
EmbeddingStats(embeddings) ==
  [total_vectors |-> Len(embeddings),
   vector_dimensions |-> Len(embeddings[1]),
   statistics |-> PooledStatistics(Len(embeddings) * Len(embeddings[1]),
                                   Sum(RowSums(embeddings)),
                                   Sum(RowSquares(embeddings)),
                                   Components(embeddings)),
   sample_vector |-> Take(embeddings[1], VectorSample)]

\* lines 197-213; a ragged list makes numpy raise (in np.array, or in np.mean
\* on the object array older numpy builds) before the section is assigned
EmbeddingsAnalysis(results) ==
  IF ~ListTruthy(results.embeddings) THEN Ok(EmptyDict)
  ELSE IF ~Rectangular(results.embeddings.list) THEN Raise("ValueError")
  ELSE Ok(EmbeddingStats(results.embeddings.list))

\* The concatenation of the sequences s[lo..hi].
RECURSIVE FlattenRange(_, _, _)
FlattenRange(s, lo, hi) ==
  IF lo > hi THEN <<>>
  ELSE IF lo = hi THEN s[lo]
  ELSE LET mid == (lo + hi) \div 2
       IN FlattenRange(s, lo, mid) \o FlattenRange(s, mid + 1, hi)

\* Counter(all_keys)[key]
CountOf(all_keys, key) == Cardinality({i \in DOMAIN all_keys : all_keys[i] = key})

FirstIndex(all_keys, key) ==
  CHOOSE i \in DOMAIN all_keys :
    /\ all_keys[i] = key
    /\ \A j \in DOMAIN all_keys : all_keys[j] = key => i <= j

\* a comes before b in most_common: a higher count, or the same count and an
\* earlier first insertion
Before(all_keys, a, b) ==
  \/ CountOf(all_keys, a) > CountOf(all_keys, b)
  \/ /\ CountOf(all_keys, a) = CountOf(all_keys, b)
     /\ FirstIndex(all_keys, a) < FirstIndex(all_keys, b)

KeyAtRank(all_keys, p) ==
  CHOOSE k \in Range(all_keys) :
    Cardinality({a \in Range(all_keys) : Before(all_keys, a, k)}) + 1 = p

\* Counter(all_keys).most_common(n), a sequence of [k, n] pairs
MostCommon(all_keys, n) ==
  [p \in 1..Min(n, Cardinality(Range(all_keys))) |->
     [k |-> KeyAtRank(all_keys, p), n |-> CountOf(all_keys, KeyAtRank(all_keys, p))]]

\* lines 230-233
ValuesUnder(metadatas, key) ==
  LET holders == Select(metadatas,
                        [i \in DOMAIN metadatas |-> HasKey(metadatas[i], key)])
  IN [i \in DOMAIN holders |-> Lookup(holders[i], key)]

\* Rendered without str(): the values themselves, so 1 and "1" stay apart
RenderedByValue(values) == Range(values)

\* set(str(v) for v in values)
Rendered(values) == {StrOf(values[i]) : i \in DOMAIN values}

\* Counter([type(v).__name__ for v in values])
TypeCounts(values) ==
  [t \in {TypeName(values[i]) : i \in DOMAIN values} |->
     Cardinality({i \in DOMAIN values : TypeName(values[i]) = t})]

\* list(set)[:5]: the order is the set's, so the sample is kept as a set, and
\* beyond five values as one five-element subset
SetSample(S) ==
  IF Cardinality(S) <= SampleValues THEN S
  ELSE CHOOSE T \in SUBSET S : Cardinality(T) = SampleValues

\* lines 235-243
ValueSummary(frequency, values) ==
  [frequency |-> frequency,
   unique_values |-> Cardinality(Rendered(values)),
   value_types |-> TypeCounts(values),
   sample_values |-> SetSample(Rendered(values))]

\* lines 229-243, one key
KeySummary(metadatas, all_keys, key) ==
  ValueSummary(CountOf(all_keys, key), ValuesUnder(metadatas, key))

\* lines 220-223
AllKeys(metadatas) ==
  FlattenRange([i \in DOMAIN metadatas |-> MetaKeys(metadatas[i])], 1, Len(metadatas))

\* lines 245-250
MetadataSummary(metadatas, all_keys) ==
  [total_with_metadata |-> Len(metadatas),
   common_keys |-> MostCommon(all_keys, CommonKeys),
   metadata_summary |->
     [key \in Range(all_keys) |-> KeySummary(metadatas, all_keys, key)],
   sample_metadata |-> Take(metadatas, MetaSamples)]

\* lines 218-250
MetadataStats(metadatas) ==
  IF Len(metadatas) = 0 THEN EmptyDict
  ELSE MetadataSummary(metadatas, AllKeys(metadatas))

\* line 217: [meta for meta in results["metadatas"] if meta]
TruthyMetas(listed) == Select(listed, [i \in DOMAIN listed |-> MetaTruthy(listed[i])])

\* lines 216-250
MetadataAnalysis(results) ==
  IF ~ListTruthy(results.metadatas) THEN EmptyDict
  ELSE MetadataStats(TruthyMetas(results.metadatas.list))

\* collection.metadata or {}
MetadataOrEmpty(h) == IF MetaTruthy(h.metadata) THEN h.metadata ELSE Dict(<<>>)

\* ------------------------------------------------------ analyze_collection
\* f is the set of this operation's calls that raise. The result is the
\* returned dict (out), the calls issued (calls) and those that raised (hit).
\* AnalysisLimit without the cap
AnalysisLimitUncapped(count) == count

\* line 179
AnalysisLimit(count) == Min(count, SampleLimit)

\* lines 160-172
NewAnalysis(h, count) ==
  [name |-> h.name, id |-> h.id, metadata |-> MetadataOrEmpty(h),
   document_count |-> count, documents |-> EmptyDict,
   embeddings |-> EmptyDict, metadata_analysis |-> EmptyDict]

\* lines 197-250, given the outcome emb of the embeddings analysis: when it
\* raised, the metadata analysis after it in the same try is not run
WithEmbeddings(docs, emb, results) ==
  IF ~emb.ok THEN [data_retrieval_error |-> emb.err] @@ docs
  ELSE [docs EXCEPT !.embeddings = emb.val,
                    !.metadata_analysis = MetadataAnalysis(results)]

\* lines 181-253: the body of the inner try, given the retrieved results
AnalyzeResults(analysis, results) ==
  WithEmbeddings([analysis EXCEPT !.documents = DocumentsAnalysis(results)],
                 EmbeddingsAnalysis(results), results)

\* AnalyzeRetrieved with a failed retrieval handled as the outer except does:
\* the analysis is replaced by {name, error}
AnalyzeRetrievedDiscarding(h, f, count, g) ==
  [out |-> IF g.ok THEN AnalyzeResults(NewAnalysis(h, count), g.val)
           ELSE [name |-> h.name, error |-> g.err],
   calls |-> <<Call("analyze", "count", h.name, 0, "ok"),
               Call("analyze", "get", h.name, AnalysisLimit(count), Res(g))>>,
   hit |-> IF g.ok THEN {} ELSE f \cap {"get"}]

\* lines 179-255, given the outcome g of collection.get
AnalyzeRetrieved(h, f, count, g) ==
  [out |-> IF g.ok THEN AnalyzeResults(NewAnalysis(h, count), g.val)
           ELSE [data_retrieval_error |-> g.err] @@ NewAnalysis(h, count),
   calls |-> <<Call("analyze", "count", h.name, 0, "ok"),
               Call("analyze", "get", h.name, AnalysisLimit(count), Res(g))>>,
   hit |-> IF g.ok THEN {} ELSE f \cap {"get"}]

\* IsEmpty without the test: an empty collection is analysed like any other
IsEmptyNever(count) == FALSE

\* line 174
IsEmpty(count) == count = 0

\* lines 171-261, given the outcome c of collection.count()
AnalyzeCounted(svc, h, f, c) ==
  IF ~c.ok
  THEN [out |-> [name |-> h.name, error |-> c.err],
        calls |-> <<Call("analyze", "count", h.name, 0, "raise")>>,
        hit |-> f \cap {"count"}]
  ELSE IF IsEmpty(c.val)
  THEN [out |-> [status |-> "empty"] @@ NewAnalysis(h, c.val),
        calls |-> <<Call("analyze", "count", h.name, 0, "ok")>>,
        hit |-> {}]
  ELSE AnalyzeRetrieved(h, f, c.val,
                        collection_get(svc, h, AnalysisLimit(c.val),
                                       {"documents", "metadatas", "embeddings"},
                                       "get" \in f))

analyze_collection(svc, h, f) ==
  AnalyzeCounted(svc, h, f, collection_count(svc, h, "count" \in f))

\* ----------------------------------------------- test_search_functionality
\* lines 289-308, given the outcome search of collection.query
SimilarityQueried(h, sample_text, n_results, f, search) ==
  [out |-> IF search.ok
           THEN [success |-> TRUE,
                 query_text |-> sample_text,
                 results_count |-> Len(search.val.ids[1]),
                 has_distances |-> ListTruthy(search.val.distances)]
           ELSE [success |-> FALSE, error |-> search.err],
   calls |-> <<Call("search", "get", h.name, 1, "ok"),
               Call("search", "query", h.name, n_results, Res(search))>>,
   hit |-> IF search.ok THEN {} ELSE f \cap {"query"}]

\* lines 284-291
SimilarityQuery(svc, h, sample_text, n_results, f) ==
  SimilarityQueried(h, sample_text, n_results, f,
                    collection_query(svc, h, sample_text, n_results, "query" \in f))

\* lines 281-308, given the outcome sample of collection.get(limit=1)
SimilaritySampled(svc, h, count, f, sample) ==
  IF ~sample.ok
  THEN [out |-> [success |-> FALSE, error |-> sample.err],
        calls |-> <<Call("search", "get", h.name, 1, "raise")>>,
        hit |-> f \cap {"get_doc"}]
  ELSE IF ~(ListTruthy(sample.val.documents)
            /\ DocTruthy(sample.val.documents.list[1]))
  THEN [out |-> [success |-> FALSE, reason |-> "no sample document available"],
        calls |-> <<Call("search", "get", h.name, 1, "ok")>>,
        hit |-> {}]
  ELSE SimilarityQuery(svc, h, Take(sample.val.documents.list[1].text, QueryChars),
                       Min(QueryResults, count), f)

\* lines 280-308
SimilarityTest(svc, h, count, f) ==
  SimilaritySampled(svc, h, count, f,
                    collection_get(svc, h, 1, {"documents"}, "get_doc" \in f))

\* lines 322-345, given the outcome filtered of collection.get(where=...)
FilterQueried(h, first, f, filtered) ==
  [out |-> IF filtered.ok
           THEN [success |-> TRUE,
                 filter_used |-> Dict(<<first>>),
                 results_count |-> Len(filtered.val.ids)]
           ELSE [success |-> FALSE, error |-> filtered.err],
   calls |-> <<Call("search", "get", h.name, 1, "ok"),
               Call("search", "get_where", h.name, FilterLimit, Res(filtered))>>,
   hit |-> IF filtered.ok THEN {} ELSE f \cap {"get_where"}]

\* lines 316-325: the filter is the first key and value of the sample
FilterBy(svc, h, first, f) ==
  FilterQueried(h, first, f,
                collection_get_where(svc, h, first.k, first.v, FilterLimit,
                                     "get_where" \in f))

\* lines 312-345, given the outcome sample of collection.get(limit=1)
FilterSampled(svc, h, f, sample) ==
  IF ~sample.ok
  THEN [out |-> [success |-> FALSE, error |-> sample.err],
        calls |-> <<Call("search", "get", h.name, 1, "raise")>>,
        hit |-> f \cap {"get_meta"}]
  ELSE IF ~(ListTruthy(sample.val.metadatas)
            /\ MetaTruthy(sample.val.metadatas.list[1]))
  THEN [out |-> [success |-> FALSE, reason |-> "no metadata found"],
        calls |-> <<Call("search", "get", h.name, 1, "ok")>>,
        hit |-> {}]
  ELSE FilterBy(svc, h, sample.val.metadatas.list[1].items[1], f)

\* lines 311-345
FilterTest(svc, h, f) ==
  FilterSampled(svc, h, f, collection_get(svc, h, 1, {"metadatas"}, "get_meta" \in f))

\* the tests' results when one try holds both: a failed similarity search
\* skips the metadata filter test
OneTry(sim, flt) ==
  IF "error" \in DOMAIN sim.out
  THEN [out |-> [similarity_search |-> sim.out], calls |-> sim.calls,
        hit |-> sim.hit]
  ELSE [out |-> [similarity_search |-> sim.out, metadata_filtering |-> flt.out],
        calls |-> sim.calls \o flt.calls,
        hit |-> sim.hit \cup flt.hit]

\* SearchTests with both tests in one try
SearchTestsOneTry(svc, h, count, f) ==
  OneTry(SimilarityTest(svc, h, count, f), FilterTest(svc, h, f))

\* the tests' results, each from its own try
BothTests(sim, flt) ==
  [out |-> [similarity_search |-> sim.out, metadata_filtering |-> flt.out],
   calls |-> sim.calls \o flt.calls,
   hit |-> sim.hit \cup flt.hit]

\* lines 278-347: the two tests, one after the other
SearchTests(svc, h, count, f) ==
  BothTests(SimilarityTest(svc, h, count, f), FilterTest(svc, h, f))

\* the tests' result after the count that preceded them
AfterCount(h, tests) ==
  [tests EXCEPT !.calls = <<Call("search", "count", h.name, 0, "ok")>> \o @]

\* lines 267-350, given the outcome c of collection.count()
SearchCounted(svc, h, f, c) ==
  IF ~c.ok
  THEN [out |-> [error |-> c.err],
        calls |-> <<Call("search", "count", h.name, 0, "raise")>>,
        hit |-> f \cap {"count"}]
  ELSE IF c.val = 0
  THEN [out |-> [status |-> "skipped", reason |-> "empty collection"],
        calls |-> <<Call("search", "count", h.name, 0, "ok")>>,
        hit |-> {}]
  ELSE AfterCount(h, SearchTests(svc, h, c.val, f))

test_search_functionality(svc, h, f) ==
  SearchCounted(svc, h, f, collection_count(svc, h, "count" \in f))

SearchFaults == {"count", "get_doc", "query", "get_meta", "get_where"}

AnalyzeFaults == {"count", "get"}

\* ------------------------------------------------------------ check_health
\* requests.get(url, timeout=5): the outcome is "ok", "http_error" (a response
\* with a status other than 200) or "raise" (exception or timeout)
HttpOutcomes == {"ok", "http_error", "raise"}

HttpGet(outcome, body) ==
  CASE outcome = "ok" -> Ok([status_code |-> HttpOK, elapsed_ms |-> 3, json |-> body])
    [] outcome = "http_error" ->
         Ok([status_code |-> HttpUnavailable, elapsed_ms |-> 3, json |-> "error"])
    [] outcome = "raise" -> Raise("Timeout")

\* lines 83-92
HeartbeatEntry(response) ==
  IF response.ok
  THEN [status_code |-> response.val.status_code,
        response_time_ms |-> response.val.elapsed_ms,
        success |-> response.val.status_code = HttpOK]
  ELSE [success |-> FALSE, error |-> response.err]

\* lines 80-92
HeartbeatProbe(outcome) == HeartbeatEntry(HttpGet(outcome, "heartbeat"))

\* lines 97-102
VersionEntry(response) ==
  IF ~response.ok THEN [error |-> response.err]
  ELSE IF response.val.status_code = HttpOK THEN [version |-> response.val.json]
  ELSE [error |-> "HTTP 503"]

\* lines 94-102
VersionProbe(outcome) == VersionEntry(HttpGet(outcome, "0.4.24"))

\* how many of the two GETs did not answer 200
Unanswered(hb, ver) ==
  Cardinality({p \in {"hb"} : hb # "ok"}) + Cardinality({p \in {"ver"} : ver # "ok"})

\* check_health with both GETs in one try: a heartbeat that raises skips the
\* version probe
check_healthOneTry(hb, ver) ==
  IF hb = "raise"
  THEN [out |-> [heartbeat |-> HeartbeatProbe(hb)],
        calls |-> <<Call("health", "http_heartbeat", "", 0, hb)>>,
        hit |-> 1]
  ELSE [out |-> [heartbeat |-> HeartbeatProbe(hb), version |-> VersionProbe(ver)],
        calls |-> <<Call("health", "http_heartbeat", "", 0, hb),
                    Call("health", "http_version", "", 0, ver)>>,
        hit |-> Unanswered(hb, ver)]

check_health(hb, ver) ==
  [out |-> [heartbeat |-> HeartbeatProbe(hb), version |-> VersionProbe(ver)],
   calls |-> <<Call("health", "http_heartbeat", "", 0, hb),
               Call("health", "http_version", "", 0, ver)>>,
   hit |-> Unanswered(hb, ver)]

\* ------------------------------------------------ get_collections_overview
\* f is the set of failing calls: 0 is list_collections, i the count of the
\* i-th listed collection
\* lines 125-140, given the outcome c of collection.count()
DetailOf(h, c) ==
  IF c.ok THEN [name |-> h.name, id |-> h.id, document_count |-> c.val,
                metadata |-> MetadataOrEmpty(h)]
  ELSE [name |-> h.name, error |-> c.err]

CollectionDetail(svc, h, fail) == DetailOf(h, collection_count(svc, h, fail))

\* the entries before the first of the failing positions
UpTo(collections, failing) ==
  IF failing = {} THEN Len(collections)
  ELSE (CHOOSE i \in failing : \A j \in failing : i <= j) - 1

\* OverviewDetails with the count outside the try: the first count that raises
\* ends the enumeration
OverviewDetailsAborting(svc, collections, f) ==
  [i \in 1..UpTo(collections,
                 {j \in DOMAIN collections :
                    ~collection_count(svc, collections[j], j \in f).ok}) |->
     CollectionDetail(svc, collections[i], i \in f)]

\* lines 124-140: one entry per collection, in listing order
OverviewDetails(svc, collections, f) ==
  [i \in DOMAIN collections |-> CollectionDetail(svc, collections[i], i \in f)]

\* lines 121-128, 142-143: only a count that was returned is added
OverviewTotal(details) ==
  Sum([i \in DOMAIN details |->
         IF "error" \in DOMAIN details[i] THEN 0 ELSE details[i].document_count])

\* lines 114-143, given the listed collections and their details
OverviewOf(collections, details, f) ==
  [out |-> [total_collections |-> Len(collections),
            collection_names |-> [i \in DOMAIN collections |-> collections[i].name],
            collections_details |-> details,
            total_documents |-> OverviewTotal(details),
            total_vectors |-> OverviewTotal(details)],
   calls |-> <<Call("overview", "list", "", 0, "ok")>> \o
             [i \in DOMAIN details |->
                Call("overview", "count", collections[i].name, 0,
                     IF "error" \in DOMAIN details[i] THEN "raise" ELSE "ok")],
   hit |-> f \cap DOMAIN collections]

\* lines 111-148, given the outcome l of client.list_collections()
OverviewListed(svc, f, l) ==
  IF ~l.ok
  THEN [out |-> [error |-> l.err],
        calls |-> <<Call("overview", "list", "", 0, "raise")>>,
        hit |-> f \cap {0}]
  ELSE OverviewOf(l.val, OverviewDetails(svc, l.val, f), f)

get_collections_overview(svc, f) ==
  OverviewListed(svc, f, list_collections(svc, 0 \in f))

\* ----------------------------------------------------------------- connect
Host == "localhost"

Port == 8000

BaseUrl == "http://localhost:8000"

ConnectOutcomes == {"ok", "client_error", "heartbeat_error"}

\* lines 47-70: chromadb.HttpClient(...) or client.heartbeat() may raise
connect(outcome) ==
  CASE outcome = "ok" ->
         [ok |-> TRUE,
          out |-> [status |-> "connected", host |-> Host, port |-> Port,
                   url |-> BaseUrl],
          calls |-> <<Call("connect", "heartbeat", "", 0, "ok")>>]
    [] outcome = "client_error" ->
         [ok |-> FALSE,
          out |-> [status |-> "failed", error |-> "ValueError", host |-> Host,
                   port |-> Port],
          calls |-> <<>>]
    [] outcome = "heartbeat_error" ->
         [ok |-> FALSE,
          out |-> [status |-> "failed", error |-> "ConnectionError",
                   host |-> Host, port |-> Port],
          calls |-> <<Call("connect", "heartbeat", "", 0, "raise")>>]

\* AfterConnect with the result of connect() ignored
AfterConnectIgnored(connected) == "health"

\* lines 361-362
AfterConnect(connected) == IF connected THEN "health" ELSE "returned"

\* ------------------------------------------------------------------- state
VARIABLES
  pc,           \* where generate_report is
  stats,        \* self.stats
  svc,          \* the collections on the service, in listing order
  nextId,       \* the id the service gives the next collection created
  collections,  \* generate_report's local list (line 376)
  idx,          \* the loop's position in it, from 1
  analysis,     \* collection_analysis of the current iteration (line 380)
  calls,        \* every service call issued so far
  faults,       \* calls that have raised so far
  churn         \* collections created or deleted by others so far

vars == <<pc, stats, svc, nextId, collections, idx, analysis, calls, faults, churn>>

\* Services with up to one collection per name, listed in creation order. The
\* collection larger than the sample limit starts alone on the service (small
\* ones may be created beside it): its thousand-record sample is costly to
\* evaluate.
SmallProfiles == Profiles \ {"big"}

InitialServices ==
  {<<>>}
  \cup {<<[name |-> "A", id |-> 1, profile |-> p]>> : p \in Profiles}
  \cup {<<[name |-> "A", id |-> 1, profile |-> p],
          [name |-> "B", id |-> 2, profile |-> q]>> :
          p \in SmallProfiles, q \in SmallProfiles}

\* __init__, lines 29-39
Init ==
  /\ pc = "connect"
  /\ stats = [timestamp |-> "now", connection |-> EmptyDict,
              overview |-> EmptyDict, collections |-> EmptyDict,
              health |-> EmptyDict]
  /\ svc \in InitialServices
  /\ nextId = Len(svc) + 1
  /\ collections = <<>>
  /\ idx = 0
  /\ analysis = EmptyDict
  /\ calls = <<>>
  /\ faults = 0
  /\ churn = 0

\* ---------------------------------------------------------- generate_report
\* The calls of one operation, of which n raised, are issued and logged.
Issue(n, issued) ==
  /\ faults + n <= MaxFaults
  /\ faults' = faults + n
  /\ calls' = calls \o issued

\* lines 361-362, given what connect() did
ConnectDone(failed, r) ==
  /\ Issue(failed, r.calls)
  /\ stats' = [stats EXCEPT !.connection = r.out]
  /\ pc' = AfterConnect(r.ok)

\* line 361
Connect ==
  /\ pc = "connect"
  /\ \E outcome \in ConnectOutcomes :
       ConnectDone(IF outcome = "ok" THEN 0 ELSE 1, connect(outcome))
  /\ UNCHANGED <<svc, nextId, collections, idx, analysis, churn>>

\* line 366, given what check_health() did
HealthChecked(r) ==
  /\ Issue(r.hit, r.calls)
  /\ stats' = [stats EXCEPT !.health = r.out]

\* line 366
CheckHealth ==
  /\ pc = "health"
  /\ \E hb \in HttpOutcomes, ver \in HttpOutcomes : HealthChecked(check_health(hb, ver))
  /\ pc' = "overview"
  /\ UNCHANGED <<svc, nextId, collections, idx, analysis, churn>>

\* dict.get("total_collections", 0)
TotalCollections(overview) ==
  IF "total_collections" \in DOMAIN overview THEN overview.total_collections ELSE 0

\* lines 370-373, given what get_collections_overview() did
Overviewed(f, r) ==
  /\ r.hit = f
  /\ Issue(Cardinality(f), r.calls)
  /\ stats' = [stats EXCEPT !.overview = r.out]
  /\ pc' = IF TotalCollections(r.out) > 0 THEN "relist" ELSE "returned"

\* lines 370-373
Overview ==
  /\ pc = "overview"
  /\ \E f \in SUBSET (0..Len(svc)) : Overviewed(f, get_collections_overview(svc, f))
  /\ UNCHANGED <<svc, nextId, collections, idx, analysis, churn>>

\* line 376, given the outcome r of client.list_collections()
Relisted(r) ==
  /\ Issue(IF r.ok THEN 0 ELSE 1, <<Call("report", "list", "", 0, Res(r))>>)
  /\ IF r.ok
     THEN /\ collections' = r.val
          /\ idx' = 1
          /\ pc' = IF Len(r.val) > 0 THEN "analyze" ELSE "returned"
     ELSE /\ pc' = "raised"
          /\ UNCHANGED <<collections, idx>>

\* line 376; the call is outside every try block
Relist ==
  /\ pc = "relist"
  /\ \E fail \in BOOLEAN : Relisted(list_collections(svc, fail))
  /\ UNCHANGED <<stats, svc, nextId, analysis, churn>>

\* line 380, given what analyze_collection() did
Analyzed(f, r) ==
  /\ r.hit = f
  /\ Issue(Cardinality(f), r.calls)
  /\ analysis' = r.out

\* the step after analyze_collection had it no outer try
Escaping(f) ==
  IF "count" \in f \/ ~Exists(svc, collections[idx]) THEN "raised" ELSE "search"

\* Analyze without analyze_collection's outer try: a count that raises leaves
\* generate_report
AnalyzeUnguarded ==
  /\ pc = "analyze"
  /\ \E f \in SUBSET AnalyzeFaults :
       /\ Analyzed(f, analyze_collection(svc, collections[idx], f))
       /\ pc' = Escaping(f)
  /\ UNCHANGED <<stats, svc, nextId, collections, idx, churn>>

\* line 380
Analyze ==
  /\ pc = "analyze"
  /\ \E f \in SUBSET AnalyzeFaults :
       Analyzed(f, analyze_collection(svc, collections[idx], f))
  /\ pc' = "search"
  /\ UNCHANGED <<stats, svc, nextId, collections, idx, churn>>

\* lines 383-386, given what test_search_functionality() did
SearchTested(f, r) ==
  /\ r.hit = f
  /\ Issue(Cardinality(f), r.calls)
  /\ stats' = [stats EXCEPT !.collections =
                 (collections[idx].name :> ([search_tests |-> r.out] @@ analysis)) @@ @]

\* lines 383-386 and the loop's step
SearchTest ==
  /\ pc = "search"
  /\ \E f \in SUBSET SearchFaults :
       SearchTested(f, test_search_functionality(svc, collections[idx], f))
  /\ analysis' = EmptyDict
  /\ idx' = idx + 1
  /\ pc' = IF idx < Len(collections) THEN "analyze" ELSE "returned"
  /\ UNCHANGED <<svc, nextId, collections, churn>>

\* ------------------------------------------------- the service's other users
\* Other clients act between the overview's listing and the loop's listing
\* (lines 370-376). A deletion during the loop makes the calls on that
\* collection raise, which the failing calls of Analyze and SearchTest cover.
Running == pc = "relist"

CreateCollection ==
  /\ Running
  /\ churn < MaxChurn
  /\ \E n \in Names, p \in SmallProfiles :
       /\ \A i \in DOMAIN svc : svc[i].name # n
       /\ svc' = Append(svc, [name |-> n, id |-> nextId, profile |-> p])
  /\ nextId' = nextId + 1
  /\ churn' = churn + 1
  /\ UNCHANGED <<pc, stats, collections, idx, analysis, calls, faults>>

DeleteCollection ==
  /\ Running
  /\ churn < MaxChurn
  /\ \E i \in DOMAIN svc :
       svc' = [j \in 1..(Len(svc) - 1) |-> IF j < i THEN svc[j] ELSE svc[j + 1]]
  /\ churn' = churn + 1
  /\ UNCHANGED <<pc, stats, nextId, collections, idx, analysis, calls, faults>>

Next ==
  \/ Connect
  \/ CheckHealth
  \/ Overview
  \/ Relist
  \/ Analyze
  \/ SearchTest
  \/ CreateCollection
  \/ DeleteCollection

Spec == Init /\ [][Next]_vars

\* ================================================================== claims
Connected ==
  "status" \in DOMAIN stats.connection /\ stats.connection.status = "connected"

ConnectFailed ==
  "status" \in DOMAIN stats.connection /\ stats.connection.status = "failed"

\* The calls a given operation issued on a collection that ended as res.
CallsOn(by, op, name, res) ==
  {i \in DOMAIN calls : /\ calls[i].by = by /\ calls[i].op = op
                        /\ calls[i].col = name /\ calls[i].res = res}

\* C1: when connect() fails, generate_report has returned at once: no health,
\* list, count, get or query call was made (the log holds at most connect's
\* own heartbeat), the connection section says "failed" and carries an error
\* text, and the health, overview and collections sections are empty.
C1_ConnectFailureSkipsPipeline ==
  ConnectFailed =>
    /\ pc = "returned"
    /\ "error" \in DOMAIN stats.connection
    /\ stats.health = EmptyDict
    /\ stats.overview = EmptyDict
    /\ stats.collections = EmptyDict
    /\ \A i \in DOMAIN calls : calls[i].by = "connect"

C1_Witness ==
  /\ ConnectFailed
  /\ pc = "returned"
  /\ Len(svc) = 2
  /\ Len(calls) = 1

\* C2: once connect() has succeeded no later failure leaves generate_report:
\* the run never ends by raising.
C2_NoFailureLeavesReport == Connected => pc # "raised"

\* An entry of report.collections carries an error field: at its top level
\* (error, data_retrieval_error), or in its search tests.
HasErrorField(entry) ==
  \/ "error" \in DOMAIN entry
  \/ "data_retrieval_error" \in DOMAIN entry
  \/ "error" \in DOMAIN entry.search_tests
  \/ \E t \in {"similarity_search", "metadata_filtering"} \cap DOMAIN entry.search_tests :
       "error" \in DOMAIN entry.search_tests[t]

RaisedInLoop(name) ==
  \E i \in DOMAIN calls : /\ calls[i].by \in {"analyze", "search"}
                          /\ calls[i].col = name
                          /\ calls[i].res = "raise"

\* C3: in the per-collection loop a count, get or query that raises for one
\* collection stops nothing: the loop only ends after the last listed
\* collection, every collection it has passed has its entry in
\* report.collections, and the entry of a collection with a raising call
\* carries an error field.
C3_SiblingIsolation ==
  /\ (idx >= 1 /\ pc \in {"returned", "raised"}) => idx = Len(collections) + 1
  /\ \A i \in 1..(idx - 1) : collections[i].name \in DOMAIN stats.collections
  /\ \A name \in DOMAIN stats.collections :
       RaisedInLoop(name) => HasErrorField(stats.collections[name])

C3_Witness ==
  /\ pc = "returned"
  /\ Len(collections) = 2
  /\ CallsOn("analyze", "count", collections[1].name, "raise") # {}
  /\ ~RaisedInLoop(collections[2].name)
  /\ collections[2].name \in DOMAIN stats.collections
  /\ ~HasErrorField(stats.collections[collections[2].name])
  /\ stats.collections[collections[2].name].document_count > 0

\* The loop's handle of the collection called name, and what the service holds
\* for it (the service does not change once the loop has its list).
HandleOf(name) ==
  collections[CHOOSE i \in DOMAIN collections : collections[i].name = name]

\* The number of records of the collection, when the analyzer's count call
\* returned it; -1 when that call raised or was not made.
CountedBy(by, name) ==
  IF CallsOn(by, "count", name, "ok") # {}
  THEN Len(RecordsOf(svc, HandleOf(name)))
  ELSE -1

\* What a retrieval of the analyzer's sample returns for the collection.
SampleOf(name) ==
  collection_get(svc, HandleOf(name),
                 Min(Len(RecordsOf(svc, HandleOf(name))), SampleLimit),
                 {"documents", "metadatas", "embeddings"}, FALSE).val

\* C4: the three sub-analyses are isolated: when the embeddings analysis
\* raises after a successful retrieval, the documents and the metadata
\* sections are both populated as they would be without the failure, and the
\* error is recorded in the embeddings section only.
C4_SubAnalysesIsolated ==
  \A name \in DOMAIN stats.collections :
    LET entry == stats.collections[name]
    IN (/\ CallsOn("analyze", "get", name, "ok") # {}
        /\ ~EmbeddingsAnalysis(SampleOf(name)).ok)
       => /\ entry.documents = DocumentsAnalysis(SampleOf(name))
          /\ entry.metadata_analysis = MetadataAnalysis(SampleOf(name))
          /\ "error" \in DOMAIN entry.embeddings
          /\ "data_retrieval_error" \notin DOMAIN entry

\* C5: when a connected run has returned, report.collections has an entry for
\* exactly the names the overview recorded in collection_names.
C5_EntriesMatchEnumeration ==
  (pc = "returned" /\ Connected /\ "collection_names" \in DOMAIN stats.overview)
    => DOMAIN stats.collections = Range(stats.overview.collection_names)

\* C6, for the analysis a of the collection called name.
EmptyAnalysis(name, a) ==
  CountedBy("analyze", name) = 0
    => /\ "status" \in DOMAIN a
       /\ a.status = "empty"
       /\ a.document_count = 0
       /\ \A i \in DOMAIN calls :
            ~(calls[i].by = "analyze" /\ calls[i].op = "get" /\ calls[i].col = name)

\* C6: for every collection whose count is 0, analyze_collection returns an
\* analysis with status "empty" and document_count 0, and the analyzer issues
\* no get for that collection.
C6_EmptyCollection ==
  /\ pc = "search" => EmptyAnalysis(collections[idx].name, analysis)
  /\ \A name \in DOMAIN stats.collections :
       EmptyAnalysis(name, stats.collections[name])

C6_Witness ==
  /\ pc = "search"
  /\ CountedBy("analyze", collections[idx].name) = 0
  /\ analysis.status = "empty"

\* C7, for the analysis a of the collection called name.
SampledAnalysis(name, a) ==
  LET N == CountedBy("analyze", name)
      n == Min(N, SampleLimit)
      gets == {i \in DOMAIN calls : /\ calls[i].by = "analyze"
                                    /\ calls[i].op = "get"
                                    /\ calls[i].col = name}
  IN N > 0
       => /\ Cardinality(gets) = 1
          /\ \A i \in gets : calls[i].arg = n
          /\ (\A i \in gets : calls[i].res = "ok")
               => /\ a.documents.total_analyzed = n
                  /\ Len(a.documents.document_lengths) = n
                  /\ Len(a.documents.samples) = Min(SampleCount, n)
                  /\ a.documents.sample_count = Min(SampleCount, n)

\* C7: for every collection with count N > 0, analyze_collection issues exactly
\* one bulk retrieval, with limit min(N, 1000); when it succeeds,
\* document_lengths and total_analyzed have min(N, 1000) entries and samples
\* holds min(5, that number) documents.
C7_SampleSize ==
  /\ pc = "search" => SampledAnalysis(collections[idx].name, analysis)
  /\ \A name \in DOMAIN stats.collections :
       SampledAnalysis(name, stats.collections[name])

C7_Witness ==
  /\ pc = "returned"
  /\ "A" \in DOMAIN stats.collections
  /\ CountedBy("analyze", "A") > SampleLimit
  /\ CallsOn("analyze", "get", "A", "ok") # {}
  /\ Len(stats.collections["A"].documents.document_lengths) = SampleLimit
  /\ Len(stats.collections["A"].documents.samples) = SampleCount

\* C8: in get_collections_overview a count that raises for one collection is
\* recorded as {name, error} in that collection's slot and the enumeration
\* goes on: collections_details has one entry per listed collection, in
\* listing order, every collection was counted once, and total_documents is
\* the sum of the counts that were returned. (With churn = 0 the service is
\* as the overview saw it.)
C8_OverviewIsolation ==
  ("collections_details" \in DOMAIN stats.overview /\ churn = 0) =>
    LET details == stats.overview.collections_details
        Failed(i) == CallsOn("overview", "count", svc[i].name, "raise") # {}
        Size(i) == Len(Records(svc[i].profile))
    IN /\ Len(details) = Len(svc)
       /\ \A i \in DOMAIN svc :
            /\ details[i].name = svc[i].name
            /\ Cardinality({k \in DOMAIN calls :
                              /\ calls[k].by = "overview" /\ calls[k].op = "count"
                              /\ calls[k].col = svc[i].name}) = 1
            /\ IF Failed(i)
               THEN DOMAIN details[i] = {"name", "error"}
               ELSE details[i].document_count = Size(i)
       /\ stats.overview.total_documents =
            Sum([i \in DOMAIN svc |-> IF Failed(i) THEN 0 ELSE Size(i)])

C8_Witness ==
  /\ "collections_details" \in DOMAIN stats.overview
  /\ churn = 0
  /\ Len(svc) = 2
  /\ CallsOn("overview", "count", svc[1].name, "raise") # {}
  /\ "error" \in DOMAIN stats.overview.collections_details[1]
  /\ "error" \notin DOMAIN stats.overview.collections_details[2]
  /\ stats.overview.total_documents > 0

HealthCalls(op, res) ==
  {i \in DOMAIN calls : /\ calls[i].by = "health" /\ calls[i].op = op
                        /\ calls[i].res = res}

\* C9: the two health probes are isolated. Once check_health has run, both
\* GETs were issued and both entries are recorded; a heartbeat GET that raised
\* gives heartbeat.success = FALSE with an error and leaves the version entry
\* as the version GET alone decides it, and a failed version GET leaves the
\* heartbeat entry as the heartbeat GET decides it; nothing is raised, and
\* generate_report goes on to list the collections.
C9_ProbesIsolated ==
  (Connected /\ pc # "health") =>
    /\ DOMAIN stats.health = {"heartbeat", "version"}
    /\ \A op \in {"http_heartbeat", "http_version"} :
         Cardinality({i \in DOMAIN calls : calls[i].op = op}) = 1
    /\ HealthCalls("http_heartbeat", "raise") # {}
         => /\ stats.health.heartbeat.success = FALSE
            /\ "error" \in DOMAIN stats.health.heartbeat
    /\ HealthCalls("http_heartbeat", "ok") # {}
         => /\ stats.health.heartbeat.success = TRUE
            /\ stats.health.heartbeat.status_code = HttpOK
    /\ HealthCalls("http_version", "ok") # {}
         => stats.health.version = [version |-> "0.4.24"]
    /\ HealthCalls("http_version", "ok") = {}
         => "error" \in DOMAIN stats.health.version
    /\ pc # "overview"
         => \E i \in DOMAIN calls : calls[i].by = "overview" /\ calls[i].op = "list"

C9_Witness ==
  /\ Connected
  /\ pc = "returned"
  /\ HealthCalls("http_heartbeat", "raise") # {}
  /\ HealthCalls("http_version", "ok") # {}
  /\ stats.health.heartbeat.success = FALSE
  /\ "version" \in DOMAIN stats.health.version
  /\ DOMAIN stats.collections # {}

\* C10, for the search tests st of the collection called name.
SearchClassified(name, st) ==
  LET N == CountedBy("search", name)
      queries == {i \in DOMAIN calls : /\ calls[i].by = "search"
                                       /\ calls[i].op = "query"
                                       /\ calls[i].col = name}
  IN /\ ("status" \in DOMAIN st) <=> (N = 0)
     /\ N = 0 => /\ st.status = "skipped"
                 /\ st.reason = "empty collection"
                 /\ queries = {}
     /\ \A q \in queries :
          calls[q].res = "raise"
            => /\ DOMAIN st = {"similarity_search", "metadata_filtering"}
               /\ st.similarity_search.success = FALSE
               /\ "error" \in DOMAIN st.similarity_search
               /\ "success" \in DOMAIN st.metadata_filtering
               /\ \E g \in DOMAIN calls :
                    /\ g > q
                    /\ calls[g].by = "search" /\ calls[g].op = "get"
                    /\ calls[g].col = name

\* C10: test_search_functionality reports the similarity search as skipped
\* (status "skipped", reason "empty collection", no query issued) exactly when
\* the collection's count is 0, and as failed (success FALSE with the error,
\* nothing raised) when the query call raises; the metadata filter test is then
\* still attempted and its result recorded.
C10_SearchClassification ==
  \A name \in DOMAIN stats.collections :
    SearchClassified(name, stats.collections[name].search_tests)

C10_Witness ==
  \E name \in DOMAIN stats.collections :
    /\ CallsOn("search", "query", name, "raise") # {}
    /\ stats.collections[name].search_tests.similarity_search.success = FALSE
    /\ stats.collections[name].search_tests.metadata_filtering.success = TRUE
    /\ \E other \in DOMAIN stats.collections :
         /\ "status" \in DOMAIN stats.collections[other].search_tests
         /\ stats.collections[other].search_tests.status = "skipped"

\* C11, for the analysis a of the collection called name.
RetrievalErrorKept(name, a) ==
  CallsOn("analyze", "get", name, "raise") # {}
    => /\ "error" \notin DOMAIN a
       /\ "data_retrieval_error" \in DOMAIN a
       /\ a.data_retrieval_error = "ConnectionError"
       /\ a.name = name
       /\ a.id = HandleOf(name).id
       /\ a.metadata = MetadataOrEmpty(HandleOf(name))
       /\ a.document_count = Len(RecordsOf(svc, HandleOf(name)))
       /\ a.document_count > 0

\* C11: when the bulk retrieval of analyze_collection raises for a non-empty
\* collection, the analysis is still returned, with a data_retrieval_error
\* field holding the error text and with the name, id, metadata and
\* document_count obtained before the retrieval.
C11_RetrievalErrorKeepsFields ==
  /\ pc = "search" => RetrievalErrorKept(collections[idx].name, analysis)
  /\ \A name \in DOMAIN stats.collections :
       RetrievalErrorKept(name, stats.collections[name])

C11_Witness ==
  /\ pc = "returned"
  /\ "A" \in DOMAIN stats.collections
  /\ CallsOn("analyze", "get", "A", "raise") # {}
  /\ stats.collections["A"].data_retrieval_error = "ConnectionError"
  /\ stats.collections["A"].document_count = 3
  /\ stats.collections["A"].metadata = Dict(<<[k |-> "owner", v |-> StrVal("a")]>>)
  /\ stats.collections["A"].documents = EmptyDict

\* The records of the collection called name that the analyzer's sample holds.
SampleRecords(name) == Take(RecordsOf(svc, HandleOf(name)), SampleLimit)

\* The positions in the sample of the records whose metadata is a non-empty
\* mapping that contains key.
Holders(name, key) ==
  {i \in DOMAIN SampleRecords(name) :
     /\ ~SampleRecords(name)[i].meta.none
     /\ \E j \in DOMAIN SampleRecords(name)[i].meta.items :
          SampleRecords(name)[i].meta.items[j].k = key}

\* The keys observed in the sample.
ObservedKeys(name) ==
  UNION {{SampleRecords(name)[i].meta.items[j].k :
            j \in DOMAIN SampleRecords(name)[i].meta.items} :
         i \in {k \in DOMAIN SampleRecords(name) : ~SampleRecords(name)[k].meta.none}}

\* The string renderings of the values under key in the sample.
Renderings(name, key) ==
  {StrOf(Lookup(SampleRecords(name)[i].meta, key)) : i \in Holders(name, key)}

\* C12, for the analysis a of the collection called name, once the retrieval
\* and the analyses before the metadata analysis have completed.
KeysSummarised(name, a) ==
  (CallsOn("analyze", "get", name, "ok") # {} /\ "data_retrieval_error" \notin DOMAIN a)
    => IF ObservedKeys(name) = {}
       THEN a.metadata_analysis = EmptyDict
       ELSE /\ DOMAIN a.metadata_analysis.metadata_summary = ObservedKeys(name)
            /\ \A key \in ObservedKeys(name) :
                 /\ a.metadata_analysis.metadata_summary[key].frequency =
                      Cardinality(Holders(name, key))
                 /\ a.metadata_analysis.metadata_summary[key].unique_values =
                      Cardinality(Renderings(name, key))

====
